---- MODULE Spec2Model ----
(***************************************************************************)
(* Model of pipeline() in src/pipelines/run_pipeline_refactored.py: the   *)
(* stage sequencer of the pseudo-labelling pipeline, its per-seed loops,  *)
(* the frame selection / label merge of each seed and the filesystem the  *)
(* stages read and write.  One behaviour is a sequence of invocations of  *)
(* pipeline() with the same configuration on the same output tree.        *)
(***************************************************************************)
EXTENDS Integers, Sequences, FiniteSets, TLC

\* ------------------------------------------------------------------ bounds
HandLabels == 2
MaxPseudo == 3
MaxVideos == 2
MaxVideoLen == 2
MaxUnsampled == 2
NumSeedValues == 2
MaxRuns == 2
NumProcs == 2
MaxDirs == 4

\* ------------------------------------------------------------- the state
VARIABLES
    cfg,                  \* the pipeline yaml: n_hand_labels, n_pseudo_labels, ...
    num_videos,           \* number of video files in the video directories
    video_len,            \* number of frames of every video
    unsampled_len,        \* rows of the held-out ("unsampled") hand-label csv
    pc,                   \* position of the running pipeline() call
    i,                    \* position of the for-loop over cfg["ensemble_seeds"]
    v,                    \* position of the for-loop over the video files
    hand_labels,          \* the table read from subsample_path
    seed_labels,          \* the table built for the current seed
    frame_idxs,           \* the frame indices of the last selection
    selected_frame_idxs,  \* list created before the seed loop, extended in it
    model_dirs_list,      \* result of find_model_dirs, filtered in place
    fs,                   \* the paths that exist in the output tree
    csv,                  \* content of the merged csv of each seed
    trace,                \* the calls and stage entries of this run, in order
    warned,               \* seeds whose label count check printed the warning
    failed_seed,          \* the seed whose iteration raised, or NoSeed
    err,                  \* the exception that ended this run, or ""
    run,                  \* number of the current invocation of pipeline()
    prev_done,            \* the previous invocation returned normally
    eks_calls,            \* the arguments of the pipeline_eks calls of this run
    train_args,           \* the arguments of the expanded train_and_infer calls
    proc_pc,              \* concurrent pipelines: position of each process
    dirs_in               \* the model-directory list before it is filtered

vars == <<cfg, num_videos, video_len, unsampled_len, pc, i, v, hand_labels,
          seed_labels, frame_idxs, selected_frame_idxs, model_dirs_list, fs,
          csv, trace, warned, failed_seed, err, run, prev_done, eks_calls,
          train_args, proc_pc, dirs_in>>

config == <<cfg, num_videos, video_len, unsampled_len>>
\* state of the concurrent-pipeline and of the list-filter specifications
others == <<proc_pc, dirs_in>>

locals == <<i, v, hand_labels, seed_labels, frame_idxs, selected_frame_idxs,
            model_dirs_list>>

NoSeed == 0 - 1

SeedValues == 0 .. (NumSeedValues - 1)

\* cfg["ensemble_seeds"]: a non-empty ordered list of distinct seeds; the
\* lists of consecutive seeds from any first seed, wrapping around
SeedLists ==
    { [j \in 1..n |-> (first + j - 1) % NumSeedValues] :
        first \in SeedValues, n \in 1..NumSeedValues }

Methods == {"eks", "ensemble_mean", "other"}
Strategies == {"random", "hand"}

\* ------------------------------------------------------------- helpers
Range(s) == { s[j] : j \in DOMAIN s }

RECURSIVE SortedSeq(_)
SortedSeq(S) ==
    IF S = {} THEN <<>>
    ELSE LET m == CHOOSE x \in S : \A y \in S : x <= y
         IN <<m>> \o SortedSeq(S \ {m})

Ev(stage, op, k) == <<stage, op, k>>

Called(stage, op, k) == \E j \in DOMAIN trace : trace[j] = Ev(stage, op, k)

Path(name, n) == <<name, n>>

\* video_names of find_video_names: the videos in discovery order
video_names == [j \in 1..num_videos |-> j]

\* ------------------------------------------- collaborators (frame_selection)
\* select_frame_idxs_random / select_frame_idxs_hand: n distinct indices of
\* [0, len), determined by the seed, returned sorted; more than len cannot
\* be drawn.
CanSelect(len, n) == n <= len

SelectFrameIdxs(len, n, seed) ==
    SortedSeq({ (seed + j) % len : j \in 0..(n - 1) })

\* process_predictions: the rows of the prediction table at frame_idxs;
\* generate_index synthesises keys from base_name and the frame index,
\* otherwise the keys of the candidate table are reused.
ProcessPredictions(idxs, base_name, generate_index) ==
    [j \in DOMAIN idxs |->
        IF generate_index THEN <<"pseudo", base_name, idxs[j]>>
        ELSE <<"heldout", 0, idxs[j]>>]

\* update_seed_labels: concatenation onto the seed's table
UpdateSeedLabels(labels, rows) == labels \o rows

\* pick_n_hand_labels: the subsample csv holds n_hand_labels rows
SubsampleRows(n) == [j \in 1..n |-> <<"hand", 0, j>>]

\* ----------------------------------------------------- pipeline(): decisions
\* line 165: frames_per_video = int(n_pseudo_labels / num_videos)
CeilFramesPerVideo(n_pseudo, n_videos) == (n_pseudo + n_videos - 1) \div n_videos

FramesPerVideo(n_pseudo, n_videos) == n_pseudo \div n_videos

\* line 224
ExpectedTotalLabels(c) == c.n_hand_labels + c.n_pseudo_labels

\* line 225: the label count check
CountMismatch(rows, c) == Len(rows) # ExpectedTotalLabels(c)

\* lines 225-230: the check only prints; control falls through to training
AbortOnMismatch(mismatch) == IF mismatch THEN "crashed" ELSE "seed_train"

AfterCountCheck(mismatch) == "seed_train"

\* lines 105 and 302: the methods that reach pipeline_eks
Dispatches(method) == method = "eks" \/ method = "ensemble_mean"

\* lines 94-101: csv names of the videos without an output in pp_dir
AllCsvNames(names, files) == names

InputCsvNames(names, files) ==
    SelectSeq(names, LAMBDA n : Path("pp_csv", n) \notin files)

\* lines 106 and 303: pipeline_eks(input_csv_names, input_dir, data_type,
\* pseudo_labeler, cfg_lp, results_dir)
EksCall(names, input_dir, method, results_dir) ==
    [names |-> names, input_dir |-> input_dir, method |-> method,
     results_dir |-> results_dir]

\* line 271: pseudo_labeler = 'eks' before the expanded smoothing
ConfiguredMethod(c) == c.pseudo_labeler

ExpandedMethod(c) == "eks"

\* the directory name eks_rng=<first>-<last> as a number
EksRng(first, last) == first * NumSeedValues + last

\* lines 277-282: results_dir of the expanded smoothing,
\* results_aeks_<strategy>/eks_rng=<seeds[0]>-<seeds[-1]>
ExpandedResultsDir(c) ==
    Path("aeks_eks_dir",
         EksRng(c.ensemble_seeds[1], c.ensemble_seeds[Len(c.ensemble_seeds)]))

\* lines 293-300: csv names of the video files, without duplicates
ExpandedCsvNames(names) ==
    LET collected[j \in 0..Len(names)] ==
            IF j = 0 THEN <<>>
            ELSE IF names[j] \in Range(collected[j - 1]) THEN collected[j - 1]
                 ELSE Append(collected[j - 1], names[j])
    IN collected[Len(names)]

\* line 261: n_train_frames = expected_total_labels
ActualRowCount(c, rows) == Len(rows)

TrainFrameCount(c, rows) == ExpectedTotalLabels(c)

\* lines 253-262: the arguments of the expanded train_and_infer call
TrainCall(k, c, rows) ==
    [k |-> k,
     new_labels_csv |-> Path("combined_csv", k),
     results_dir |-> Path("aeks_rng", k),
     n_train_frames |-> TrainFrameCount(c, rows)]

\* lines 74-86: the baseline loop trains every seed before post-processing
PostprocessInsideLoop(pos, n) == "baseline_pp"

AfterBaselineTrain(pos, n) == IF pos < n THEN "baseline_train" ELSE "baseline_pp"

\* lines 145-266: the seed loop runs every seed before expanded smoothing
AfterExpandedTrain(pos, n) == IF pos < n THEN "seed_begin" ELSE "expanded_pp"

\* lines 113 and 328: cfg["ood_snippets"] gates the OOD stages
OodEnabled(c) == c.ood_snippets

\* line 147: seed_labels = hand_labels.copy()
KeepSeedLabels(hand, previous) == IF previous = <<>> THEN hand ELSE previous

InitSeedLabels(hand, previous) == hand

\* lines 204-217: an exception of the selection is not caught; the merge,
\* the csv write and the training of the seed are not reached
SwallowSelectionError(raised) == "seed_write"

AfterHandSelect(raised) == IF raised THEN "crashed" ELSE "seed_write"

\* lines 337-351: names read in the expanded OOD block; none of them is
\* assigned in pipeline() or at module level
BoundNames == {"data_dir", "dataset_name", "model_dirs_list", "aeks_eks_save_dir"}

OodBlockNames == {"data_dir", "ground_truth_csv", "snippets_dir",
                  "keypoint_ensemble_list", "config_dir", "dataset_name",
                  "model_dirs_list", "aeks_eks_save_dir"}

\* line 332: 'eks' in os.path.basename(directory)
HasEks(directory) == directory[1] = "eks_rng"

\* lines 331-334: for directory in model_dirs_list: ... remove(directory);
\* the list iterator advances by position over the shrinking list
RECURSIVE RemoveWhileIterating(_, _)
RemoveWhileIterating(dirs, pos) ==
    IF pos > Len(dirs) THEN dirs
    ELSE IF HasEks(dirs[pos])
         THEN RemoveWhileIterating(
                  [j \in 1..(Len(dirs) - 1) |-> IF j < pos THEN dirs[j] ELSE dirs[j + 1]],
                  pos + 1)
         ELSE RemoveWhileIterating(dirs, pos + 1)

\* find_model_dirs(aeks_dir, 'rng'): the directories under results_aeks_*
\* whose name contains 'rng' -- eks_rng=<s0>-<sN> and the rng<k> of the seeds
FindModelDirs(files) ==
    (LET tags == SortedSeq({ n \in 0..(NumSeedValues * NumSeedValues - 1) :
                                 Path("aeks_eks_dir", n) \in files })
     IN [j \in DOMAIN tags |-> <<"eks_rng", tags[j]>>])
    \o LET ks == SortedSeq({ k \in SeedValues : Path("aeks_rng", k) \in files })
       IN [j \in DOMAIN ks |-> <<"rng", ks[j]>>]

\* ------------------------------------------------------------------ Init
Init ==
    /\ cfg \in [n_hand_labels : {HandLabels},
                n_pseudo_labels : 0..MaxPseudo,
                ensemble_seeds : SeedLists,
                pseudo_labeler : Methods,
                selection_strategy : Strategies,
                ood_snippets : BOOLEAN]
    /\ num_videos \in 0..MaxVideos
    \* the video length is read by the 'random' strategy only (line 171),
    \* the held-out table by the 'hand' strategy only (line 204)
    /\ video_len \in IF cfg.selection_strategy = "random" THEN 1..MaxVideoLen ELSE {1}
    /\ unsampled_len \in IF cfg.selection_strategy = "hand" THEN 0..MaxUnsampled ELSE {0}
    /\ pc = "setup"
    /\ i = 1
    /\ v = 1
    /\ hand_labels = <<>>
    /\ seed_labels = <<>>
    /\ frame_idxs = <<>>
    /\ selected_frame_idxs = <<>>
    /\ model_dirs_list = <<>>
    /\ fs = {}
    /\ csv = [k \in SeedValues |-> <<>>]
    /\ trace = <<>>
    /\ warned = {}
    /\ failed_seed = NoSeed
    /\ err = ""
    /\ run = 1
    /\ prev_done = FALSE
    /\ eks_calls = <<>>
    /\ train_args = {}
    /\ proc_pc = <<>>
    /\ dirs_in = <<>>

seeds == cfg.ensemble_seeds

Log(e) == trace' = Append(trace, e)

Raise(name, k) ==
    /\ pc' = "crashed"
    /\ err' = name
    /\ failed_seed' = k

\* ------------------------------------------------------------- the stages
\* lines 43-69: load the configuration, create outputs/networks/pp_dir,
\* discover the videos, write the subsample and the unsampled csv
Setup ==
    /\ pc = "setup"
    /\ fs' = fs \cup {Path("outputs_dir", 0), Path("networks_dir", 0),
                      Path("pp_dir", 0), Path("subsample_csv", 0),
                      Path("unsampled_csv", 0)}
    /\ pc' = "baseline_train"
    /\ i' = 1
    /\ UNCHANGED <<config, others, eks_calls, train_args, v, hand_labels, seed_labels, frame_idxs,
                   selected_frame_idxs, model_dirs_list, csv, trace, warned,
                   failed_seed, err, run, prev_done>>

\* lines 74-86: one iteration of the baseline training loop
BaselineTrain ==
    /\ pc = "baseline_train"
    /\ LET k == seeds[i] IN
        /\ fs' = fs \cup {Path("networks_rng", k)}
        /\ Log(Ev("BASELINE_TRAIN", "train_and_infer", k))
        /\ \E returns \in BOOLEAN :
            IF returns
            THEN /\ pc' = AfterBaselineTrain(i, Len(seeds))
                 /\ i' = IF i < Len(seeds) THEN i + 1 ELSE 1
                 /\ UNCHANGED <<err, failed_seed>>
            ELSE /\ Raise("TrainingError", k)
                 /\ UNCHANGED i
    /\ UNCHANGED <<config, others, eks_calls, train_args, v, hand_labels, seed_labels, frame_idxs,
                   selected_frame_idxs, model_dirs_list, csv, warned, run,
                   prev_done>>

\* lines 91-106: baseline post-processing
BaselinePostprocess ==
    /\ pc = "baseline_pp"
    /\ LET names == InputCsvNames(video_names, fs) IN
        IF Dispatches(cfg.pseudo_labeler)
        THEN /\ trace' = trace \o <<Ev("BASELINE_POSTPROCESS", "enter", NoSeed),
                                    Ev("BASELINE_POSTPROCESS", "pipeline_eks", NoSeed)>>
             /\ eks_calls' = Append(eks_calls,
                    EksCall(names, Path("networks_dir", 0), cfg.pseudo_labeler,
                            Path("pp_dir", 0)))
             /\ \E returns \in BOOLEAN :
                 IF returns
                 THEN /\ fs' = fs \cup { Path("pp_csv", n) : n \in Range(names) }
                      /\ pc' = IF OodEnabled(cfg) THEN "ood_baseline" ELSE "select_setup"
                      /\ UNCHANGED <<err, failed_seed>>
                 ELSE \* the smoothing fails after the outputs of some videos
                      /\ \E written \in 0..(IF names = <<>> THEN 0 ELSE Len(names) - 1) :
                           fs' = fs \cup { Path("pp_csv", names[j]) : j \in 1..written }
                      /\ Raise("SmoothingError", NoSeed)
        ELSE /\ Log(Ev("BASELINE_POSTPROCESS", "enter", NoSeed))
             /\ pc' = IF OodEnabled(cfg) THEN "ood_baseline" ELSE "select_setup"
             /\ UNCHANGED <<fs, err, failed_seed, eks_calls>>
    /\ UNCHANGED <<config, others, train_args, locals, csv, warned, run, prev_done>>

\* lines 112-122: OOD evaluation of the baseline models
OodBaseline ==
    /\ pc = "ood_baseline"
    /\ Log(Ev("OOD_BASELINE", "run_ood_pipeline", NoSeed))
    /\ pc' = "select_setup"
    /\ UNCHANGED <<config, others, eks_calls, train_args, locals, fs, csv, warned, failed_seed, err, run, prev_done>>

\* lines 127-143: what is created once before the seed loop
SelectSetup ==
    /\ pc = "select_setup"
    /\ selected_frame_idxs' = <<>>
    /\ fs' = fs \cup {Path("hand_label_and_pseudo_label_dir", 0)}
    /\ hand_labels' = SubsampleRows(cfg.n_hand_labels)
    /\ pc' = "seed_begin"
    /\ i' = 1
    /\ UNCHANGED <<config, others, eks_calls, train_args, v, seed_labels, frame_idxs, model_dirs_list, csv,
                   trace, warned, failed_seed, err, run, prev_done>>

\* lines 145-166: start of one seed's iteration
SeedBegin ==
    /\ pc = "seed_begin"
    /\ seed_labels' = InitSeedLabels(hand_labels, seed_labels)
    /\ frame_idxs' = <<>>
    /\ Log(Ev("SELECT_AND_MERGE", "enter", seeds[i]))
    /\ IF cfg.selection_strategy = "random"
       THEN IF num_videos = 0
            THEN /\ Raise("ZeroDivisionError", seeds[i])
                 /\ UNCHANGED v
            ELSE /\ pc' = "seed_video"
                 /\ v' = 1
                 /\ UNCHANGED <<err, failed_seed>>
       ELSE /\ pc' = "seed_hand"
            /\ UNCHANGED <<v, err, failed_seed>>
    /\ UNCHANGED <<config, others, eks_calls, train_args, i, hand_labels, selected_frame_idxs, model_dirs_list,
                   fs, csv, warned, run, prev_done>>

\* lines 169-201: one video file of the 'random' strategy
SeedVideo ==
    /\ pc = "seed_video"
    /\ LET k == seeds[i]
           n == FramesPerVideo(cfg.n_pseudo_labels, num_videos)
           idxs == SelectFrameIdxs(video_len, n, k)
           called == trace \o <<Ev("SELECT_AND_MERGE", "select_frame_idxs_random", k)>>
       IN
        IF ~CanSelect(video_len, n)
        THEN /\ trace' = called
             /\ Raise("InsufficientCandidatesError", k)
             /\ UNCHANGED <<v, seed_labels, frame_idxs, selected_frame_idxs, fs>>
        ELSE /\ frame_idxs' = idxs
             /\ selected_frame_idxs' = selected_frame_idxs \o idxs
             /\ trace' = called \o <<Ev("SELECT_AND_MERGE", "export_frames", k)>>
             /\ fs' = fs \cup {Path("labeled_frames", video_names[v])}
             /\ IF Path("pp_csv", video_names[v]) \notin fs
                THEN /\ Raise("FileNotFoundError", k)
                     /\ UNCHANGED <<v, seed_labels>>
                ELSE /\ seed_labels' = UpdateSeedLabels(seed_labels,
                            ProcessPredictions(idxs, video_names[v], TRUE))
                     /\ v' = IF v < num_videos THEN v + 1 ELSE 1
                     /\ pc' = IF v < num_videos THEN "seed_video" ELSE "seed_write"
                     /\ UNCHANGED <<err, failed_seed>>
    /\ UNCHANGED <<config, others, eks_calls, train_args, i, hand_labels, model_dirs_list, csv, warned, run,
                   prev_done>>

\* lines 203-217: the 'hand' strategy
SeedHand ==
    /\ pc = "seed_hand"
    /\ LET k == seeds[i]
           n == cfg.n_pseudo_labels
           raised == ~CanSelect(unsampled_len, n)
       IN
        /\ Log(Ev("SELECT_AND_MERGE", "select_frame_idxs_hand", k))
        /\ pc' = AfterHandSelect(raised)
        /\ IF raised
           THEN /\ err' = "InsufficientCandidatesError"
                /\ failed_seed' = k
                /\ UNCHANGED <<frame_idxs, seed_labels>>
           ELSE /\ frame_idxs' = SelectFrameIdxs(unsampled_len, n, k)
                /\ seed_labels' = UpdateSeedLabels(seed_labels,
                       ProcessPredictions(SelectFrameIdxs(unsampled_len, n, k), 0, FALSE))
                /\ UNCHANGED <<err, failed_seed>>
    /\ UNCHANGED <<config, others, eks_calls, train_args, i, v, hand_labels, selected_frame_idxs,
                   model_dirs_list, fs, csv, warned, run, prev_done>>

\* lines 219-230: write the merged csv of the seed, then check its row count
SeedWrite ==
    /\ pc = "seed_write"
    /\ LET k == seeds[i] IN
        /\ csv' = [csv EXCEPT ![k] = seed_labels]
        /\ fs' = fs \cup {Path("combined_csv", k)}
        /\ Log(Ev("SELECT_AND_MERGE", "to_csv", k))
        /\ warned' = IF CountMismatch(seed_labels, cfg) THEN warned \cup {k} ELSE warned
        /\ pc' = AfterCountCheck(CountMismatch(seed_labels, cfg))
    /\ UNCHANGED <<config, others, eks_calls, train_args, locals, failed_seed, err, run, prev_done>>

\* lines 236-264: train the seed's model on the merged csv
SeedTrain ==
    /\ pc = "seed_train"
    /\ LET k == seeds[i] IN
        /\ fs' = fs \cup {Path("aeks_rng", k)}
        /\ Log(Ev("EXPANDED_TRAIN", "train_and_infer", k))
        /\ train_args' = train_args \cup {TrainCall(k, cfg, seed_labels)}
        /\ \E returns \in BOOLEAN :
            IF returns
            THEN /\ pc' = AfterExpandedTrain(i, Len(seeds))
                 /\ i' = IF i < Len(seeds) THEN i + 1 ELSE 1
                 /\ UNCHANGED <<err, failed_seed>>
            ELSE /\ Raise("TrainingError", k)
                 /\ UNCHANGED i
    /\ UNCHANGED <<config, others, eks_calls, v, hand_labels, seed_labels, frame_idxs,
                   selected_frame_idxs, model_dirs_list, csv, warned, run,
                   prev_done>>

\* lines 271-303: smoothing of the expanded models, skipped when the
\* directory eks_rng=<s0>-<sN> exists
ExpandedPostprocess ==
    /\ pc = "expanded_pp"
    /\ IF ExpandedResultsDir(cfg) \in fs
       THEN /\ Log(Ev("EXPANDED_POSTPROCESS", "skip", NoSeed))
            /\ pc' = "model_dir_scan"
            /\ UNCHANGED <<fs, err, failed_seed, eks_calls>>
       ELSE /\ trace' = trace \o <<Ev("EXPANDED_POSTPROCESS", "enter", NoSeed),
                                   Ev("EXPANDED_POSTPROCESS", "pipeline_eks", NoSeed)>>
            /\ eks_calls' = Append(eks_calls,
                   EksCall(ExpandedCsvNames(video_names), Path("aeks_dir", 0),
                           ExpandedMethod(cfg), ExpandedResultsDir(cfg)))
            /\ \E returns \in BOOLEAN :
                IF returns
                THEN /\ fs' = fs \cup {ExpandedResultsDir(cfg), Path("aeks_eks_out", 0)}
                     /\ pc' = "model_dir_scan"
                     /\ UNCHANGED <<err, failed_seed>>
                ELSE /\ fs' = fs \cup {ExpandedResultsDir(cfg)}
                     /\ Raise("SmoothingError", NoSeed)
    /\ UNCHANGED <<config, others, train_args, locals, csv, warned, run, prev_done>>

\* lines 309-328: scan the expanded model directories, then the OOD gate
ModelDirScan ==
    /\ pc = "model_dir_scan"
    /\ model_dirs_list' = FindModelDirs(fs)
    /\ Log(Ev("MODEL_DIR_SCAN", "find_model_dirs", NoSeed))
    /\ pc' = IF OodEnabled(cfg) THEN "ood_expanded" ELSE "done"
    /\ UNCHANGED <<config, others, eks_calls, train_args, i, v, hand_labels, seed_labels, frame_idxs,
                   selected_frame_idxs, fs, csv, warned, failed_seed, err, run,
                   prev_done>>

\* lines 328-351: OOD evaluation of the expanded models
OodExpanded ==
    /\ pc = "ood_expanded"
    /\ model_dirs_list' = RemoveWhileIterating(model_dirs_list, 1)
    /\ IF OodBlockNames \subseteq BoundNames
       THEN /\ trace' = trace \o
                 <<Ev("OOD_EXPANDED", "enter", NoSeed),
                   Ev("OOD_EXPANDED", "run_inference_on_snippets", NoSeed),
                   Ev("OOD_EXPANDED", "run_eks_on_snippets", NoSeed),
                   Ev("OOD_EXPANDED", "collect_preds", NoSeed),
                   Ev("OOD_EXPANDED", "compute_ens_mean_median", NoSeed),
                   Ev("OOD_EXPANDED", "compute_ens_mean_median", NoSeed),
                   Ev("OOD_EXPANDED", "compute_ood_snippet_metrics", NoSeed)>>
            /\ pc' = "done"
            /\ UNCHANGED <<err, failed_seed>>
       ELSE /\ Log(Ev("OOD_EXPANDED", "enter", NoSeed))
            /\ Raise("NameError", NoSeed)
    /\ UNCHANGED <<config, others, eks_calls, train_args, i, v, hand_labels, seed_labels, frame_idxs,
                   selected_frame_idxs, fs, csv, warned, run, prev_done>>

\* pipeline() is invoked again with the same configuration on the same tree
Rerun ==
    /\ pc \in {"done", "crashed"}
    /\ run < MaxRuns
    /\ run' = run + 1
    /\ prev_done' = (pc = "done")
    /\ pc' = "setup"
    /\ i' = 1
    /\ v' = 1
    /\ hand_labels' = <<>>
    /\ seed_labels' = <<>>
    /\ frame_idxs' = <<>>
    /\ selected_frame_idxs' = <<>>
    /\ model_dirs_list' = <<>>
    /\ trace' = <<>>
    /\ warned' = {}
    /\ failed_seed' = NoSeed
    /\ err' = ""
    /\ eks_calls' = <<>>
    /\ train_args' = {}
    /\ UNCHANGED <<config, others, fs, csv>>

Next ==
    \/ Setup
    \/ BaselineTrain
    \/ BaselinePostprocess
    \/ OodBaseline
    \/ SelectSetup
    \/ SeedBegin
    \/ SeedVideo
    \/ SeedHand
    \/ SeedWrite
    \/ SeedTrain
    \/ ExpandedPostprocess
    \/ ModelDirScan
    \/ OodExpanded
    \/ Rerun

Spec == Init /\ [][Next]_vars

\* ------------------------------------------------------- shared vocabulary
Halted == pc \in {"done", "crashed"}

SeedSet == Range(seeds)

SeedPos(k) == CHOOSE j \in DOMAIN seeds : seeds[j] = k

Entered(stage) == \E j \in DOMAIN trace : trace[j][1] = stage

MergeWritten(k) == Called("SELECT_AND_MERGE", "to_csv", k)

ExpandedTrained(k) == Called("EXPANDED_TRAIN", "train_and_infer", k)

BaselineTrained(k) == Called("BASELINE_TRAIN", "train_and_infer", k)

\* exceptions raised by a collaborator or a library call, as opposed to
\* exceptions raised by statements of pipeline() itself
CollaboratorErrors == {"TrainingError", "SmoothingError",
                       "InsufficientCandidatesError", "FileNotFoundError"}

\* the stage sequence of section 4.5 as a rank; per-seed stages carry the
\* position of their seed in cfg["ensemble_seeds"]
Rank(e) ==
    LET n == Len(seeds) IN
    CASE e[1] = "BASELINE_TRAIN" -> SeedPos(e[3])
      [] e[1] = "BASELINE_POSTPROCESS" -> n + 1
      [] e[1] = "OOD_BASELINE" -> n + 2
      [] e[1] = "SELECT_AND_MERGE" -> n + 1 + 2 * SeedPos(e[3])
      [] e[1] = "EXPANDED_TRAIN" -> n + 2 + 2 * SeedPos(e[3])
      [] e[1] = "EXPANDED_POSTPROCESS" -> 3 * n + 3
      [] e[1] = "MODEL_DIR_SCAN" -> 3 * n + 4
      [] OTHER -> 3 * n + 5

\* the rows the selection strategy yields for seed k, computed at once
RECURSIVE RandomRows(_, _)
RandomRows(k, vid) ==
    IF vid > num_videos THEN <<>>
    ELSE ProcessPredictions(
             SelectFrameIdxs(video_len,
                             FramesPerVideo(cfg.n_pseudo_labels, num_videos), k),
             video_names[vid], TRUE)
         \o RandomRows(k, vid + 1)

SelectedRows(k) ==
    IF cfg.selection_strategy = "random" THEN RandomRows(k, 1)
    ELSE ProcessPredictions(
             SelectFrameIdxs(unsampled_len, cfg.n_pseudo_labels, k), 0, FALSE)

\* ------------------------------------------------------------------ C1
\* C1: under the 'random' strategy the merged table written for a seed has
\* exactly n_hand_labels + n_pseudo_labels rows, whatever n_pseudo_labels
\* and the number of videos are.
C1_MergedRowCount ==
    \A k \in SeedSet :
        (cfg.selection_strategy = "random" /\ MergeWritten(k))
            => Len(csv[k]) = cfg.n_hand_labels + cfg.n_pseudo_labels

\* ------------------------------------------------------------------ C2
\* C2: the calls of a run occur in the order BASELINE_TRAIN (seeds in list
\* order) -> BASELINE_POSTPROCESS -> OOD_BASELINE (if enabled) -> per seed
\* SELECT_AND_MERGE then EXPANDED_TRAIN -> EXPANDED_POSTPROCESS ->
\* OOD_EXPANDED (if enabled); post-processing and OOD stages start only
\* after the training of every seed of the preceding loop has returned, and
\* a seed's expanded training starts only after its merged csv is written.
C2_StageOrder ==
    LET ranks == [a \in DOMAIN trace |-> Rank(trace[a])]
        stages == { trace[a][1] : a \in DOMAIN trace }
        baseline == { trace[a][3] : a \in { x \in DOMAIN trace : trace[x][1] = "BASELINE_TRAIN" } }
        expanded == { trace[a][3] : a \in { x \in DOMAIN trace : trace[x][1] = "EXPANDED_TRAIN" } }
        merged == { trace[a][3] : a \in { x \in DOMAIN trace : trace[x][2] = "to_csv" } }
    IN
    /\ \A a \in 1..(Len(trace) - 1) :
         /\ ranks[a] <= ranks[a + 1]
         /\ trace[a][2] = "train_and_infer" => ranks[a] < ranks[a + 1]
    /\ ({"BASELINE_POSTPROCESS", "OOD_BASELINE"} \cap stages # {})
         => SeedSet \subseteq baseline
    /\ "SELECT_AND_MERGE" \in stages => "BASELINE_POSTPROCESS" \in stages
    /\ ("SELECT_AND_MERGE" \in stages /\ OodEnabled(cfg)) => "OOD_BASELINE" \in stages
    /\ ({"OOD_BASELINE", "OOD_EXPANDED"} \cap stages # {}) => OodEnabled(cfg)
    /\ expanded \subseteq merged
    /\ \A k \in expanded : Path("combined_csv", k) \in fs
    /\ ({"EXPANDED_POSTPROCESS", "OOD_EXPANDED"} \cap stages # {})
         => SeedSet \subseteq expanded
    /\ "OOD_EXPANDED" \in stages => "EXPANDED_POSTPROCESS" \in stages

C2_Witness ==
    /\ Len(seeds) = 2
    /\ Entered("OOD_BASELINE")
    /\ Entered("OOD_EXPANDED")
    /\ \A k \in SeedSet : BaselineTrained(k) /\ MergeWritten(k) /\ ExpandedTrained(k)

\* ------------------------------------------------------------------ C3
\* C3: a second run with the same configuration, after a first run that
\* completed and whose outputs are all in place, re-executes no stage: no
\* training, frame export, merge write or smoothing call happens in it.
C3_SecondRunIsNoOp ==
    (run >= 2 /\ prev_done) =>
        \A j \in DOMAIN trace :
            trace[j][2] \notin {"train_and_infer", "export_frames", "to_csv",
                                "pipeline_eks"}

\* ------------------------------------------------------------------ C4
\* C4: a failure raised inside one seed's iteration (its training failing,
\* or a prediction csv missing) aborts only that iteration: when the run
\* ends, every other seed has its merge written and its training invoked.
C4_FailureIsolatedToSeed ==
    (Halted /\ failed_seed # NoSeed /\ err \in {"TrainingError", "FileNotFoundError"})
        => \A k \in SeedSet \ {failed_seed} : MergeWritten(k) /\ ExpandedTrained(k)

\* ------------------------------------------------------------------ C5
\* C5: a merged table whose row count differs from n_hand_labels +
\* n_pseudo_labels only produces a warning: the seed's csv is written, its
\* expanded training is the next call, and a run that returns has processed
\* every seed and the expanded post-processing.
C5_MismatchWarnsAndContinues ==
    \A k \in warned :
        /\ Path("combined_csv", k) \in fs
        /\ MergeWritten(k)
        /\ Len(csv[k]) # ExpectedTotalLabels(cfg)
        /\ ExpandedTrained(k) \/ (pc = "seed_train" /\ seeds[i] = k)
        /\ (ExpandedTrained(k) /\ ~Halted /\ pc # "seed_train")
             => \/ pc \in {"seed_begin", "seed_video", "seed_hand", "seed_write"}
                   /\ i > SeedPos(k)
                \/ pc \in {"expanded_pp", "model_dir_scan", "ood_expanded"}
        /\ pc = "crashed" => err \in CollaboratorErrors \cup {"NameError"}
        /\ pc = "done" =>
             /\ \A q \in SeedSet : MergeWritten(q) /\ ExpandedTrained(q)
             /\ Entered("EXPANDED_POSTPROCESS")

C5_Witness ==
    /\ pc = "done"
    /\ Len(seeds) = 2
    /\ seeds[1] \in warned
    /\ ExpandedTrained(seeds[1])
    /\ ExpandedTrained(seeds[2])

\* ------------------------------------------------------------------ C6
\* C6: with a pseudo_labeler other than 'eks' and 'ensemble_mean', entering
\* baseline post-processing raises UnsupportedMethodError and ends the run:
\* the stage is not passed silently and no later stage runs.
C6_UnsupportedMethodIsFatal ==
    (~Dispatches(cfg.pseudo_labeler) /\ Entered("BASELINE_POSTPROCESS"))
        => /\ pc = "crashed"
           /\ err = "UnsupportedMethodError"
           /\ ~Entered("SELECT_AND_MERGE")
           /\ ~Entered("EXPANDED_TRAIN")

\* ------------------------------------------------------------------ C7
\* C7: under the 'hand' strategy with fewer held-out rows than
\* n_pseudo_labels the selection of a seed raises
\* InsufficientCandidatesError before any merge: no row is appended to the
\* seed's table, no merged csv is written and no expanded training is
\* invoked.
C7_HandSelectionFailsBeforeMerge ==
    (cfg.selection_strategy = "hand" /\ unsampled_len < cfg.n_pseudo_labels)
        => /\ \A k \in SeedValues :
                /\ ~MergeWritten(k)
                /\ ~ExpandedTrained(k)
                /\ Path("combined_csv", k) \notin fs
                /\ Path("aeks_rng", k) \notin fs
           /\ Len(seed_labels) <= cfg.n_hand_labels
           /\ \A k \in SeedSet :
                Called("SELECT_AND_MERGE", "select_frame_idxs_hand", k)
                    => /\ pc = "crashed"
                       /\ err = "InsufficientCandidatesError"
                       /\ failed_seed = k
                       /\ seed_labels = hand_labels

C7_Witness ==
    /\ cfg.selection_strategy = "hand"
    /\ unsampled_len < cfg.n_pseudo_labels
    /\ unsampled_len > 0
    /\ pc = "crashed"
    /\ err = "InsufficientCandidatesError"
    /\ Called("SELECT_AND_MERGE", "select_frame_idxs_hand", seeds[1])

\* ------------------------------------------------------------------ C8
\* the position right after the start of a seed's iteration, before its
\* selection
AtIterationStart ==
    \/ pc = "seed_video" /\ v = 1
    \/ pc = "seed_hand"

RECURSIVE EarlierIdxs(_)
EarlierIdxs(pos) ==
    IF pos = 0 THEN <<>>
    ELSE EarlierIdxs(pos - 1) \o
         [j \in 1..(num_videos * FramesPerVideo(cfg.n_pseudo_labels, num_videos)) |->
            SelectFrameIdxs(video_len,
                            FramesPerVideo(cfg.n_pseudo_labels, num_videos),
                            seeds[pos])
              [((j - 1) % FramesPerVideo(cfg.n_pseudo_labels, num_videos)) + 1]]

MergedIsHandPlusOwnSelection ==
    /\ Entered("SELECT_AND_MERGE") => hand_labels = SubsampleRows(cfg.n_hand_labels)
    /\ \A k \in SeedSet :
         MergeWritten(k) => csv[k] = SubsampleRows(cfg.n_hand_labels) \o SelectedRows(k)

C9_RunEndsInTerminalState ==
    /\ (pc = "crashed" /\ num_videos > 0) => err \in CollaboratorErrors
    /\ pc = "done" =>
         /\ Entered("EXPANDED_POSTPROCESS")
         /\ OodEnabled(cfg) =>
              Called("OOD_EXPANDED", "compute_ood_snippet_metrics", NoSeed)
    /\ \A a \in DOMAIN trace :
         trace[a][2] \in {"train_and_infer", "to_csv", "enter"}
             => \A b \in (a + 1)..Len(trace) : trace[a] # trace[b]

\* ------------------------------------------------------------------ C10
OodCollaborators == {"run_ood_pipeline", "run_inference_on_snippets",
                     "run_eks_on_snippets", "collect_preds",
                     "compute_ens_mean_median", "compute_ood_snippet_metrics"}

\* C10: with ood_snippets false no OOD collaborator is ever invoked; with
\* ood_snippets true a run that got past the expanded post-processing has
\* invoked both the baseline and the expanded OOD evaluation.
C10_OodGatedByFlag ==
    /\ ~OodEnabled(cfg) => \A j \in DOMAIN trace : trace[j][2] \notin OodCollaborators
    /\ (OodEnabled(cfg) /\ Halted /\ Entered("MODEL_DIR_SCAN"))
         => /\ Called("OOD_BASELINE", "run_ood_pipeline", NoSeed)
            /\ Called("OOD_EXPANDED", "run_inference_on_snippets", NoSeed)
            /\ Called("OOD_EXPANDED", "compute_ood_snippet_metrics", NoSeed)

\* ------------------------------------------------------------------ C11
\* the pseudo-label rows of the merged table of seed k
PseudoRowCount(k) == Len(csv[k]) - cfg.n_hand_labels

\* C11: under the 'random' strategy every video gets the same quota
\* floor(n_pseudo_labels / num_videos); the rows selected for a seed are the
\* quota times the number of video files, which never exceeds
\* n_pseudo_labels and falls short of it by n_pseudo_labels mod num_videos.
C11_QuotaTruncates ==
    cfg.selection_strategy = "random" =>
        /\ (pc = "seed_video" /\ v > 1) =>
             /\ Len(frame_idxs) * num_videos <= cfg.n_pseudo_labels
             /\ cfg.n_pseudo_labels < (Len(frame_idxs) + 1) * num_videos
             /\ Len(seed_labels) = cfg.n_hand_labels + (v - 1) * Len(frame_idxs)
        /\ \A k \in SeedSet :
             MergeWritten(k) =>
                /\ \E q \in 0..cfg.n_pseudo_labels :
                     /\ q * num_videos <= cfg.n_pseudo_labels
                     /\ cfg.n_pseudo_labels < (q + 1) * num_videos
                     /\ PseudoRowCount(k) = q * num_videos
                /\ PseudoRowCount(k) <= cfg.n_pseudo_labels
                /\ cfg.n_pseudo_labels - PseudoRowCount(k)
                     = cfg.n_pseudo_labels % num_videos

C11_Witness ==
    /\ cfg.selection_strategy = "random"
    /\ MergeWritten(seeds[1])
    /\ cfg.n_pseudo_labels % num_videos # 0
    /\ PseudoRowCount(seeds[1]) > 0
    /\ PseudoRowCount(seeds[1]) < cfg.n_pseudo_labels

\* ------------------------------------------------------------------ C12
BaselineCalls == SelectSeq(eks_calls, LAMBDA c : c.results_dir = Path("pp_dir", 0))

\* C12: with method 'eks' or 'ensemble_mean' the baseline post-processing
\* invokes the smoothing collaborator once per run, and the csv names it
\* passes are exactly the discovered videos, in discovery order, without an
\* output csv in the baseline post-processing directory.
C12_BaselineSmoothingInput ==
    /\ [](Len(BaselineCalls) <= 1)
    /\ [][(pc = "baseline_pp" /\ Dispatches(cfg.pseudo_labeler)) =>
            /\ Len(BaselineCalls') = Len(BaselineCalls) + 1
            /\ LET passed == BaselineCalls'[Len(BaselineCalls')].names IN
                /\ \A n \in Range(passed) :
                     n \in Range(video_names) /\ Path("pp_csv", n) \notin fs
                /\ \A n \in Range(video_names) :
                     Path("pp_csv", n) \notin fs => n \in Range(passed)
                /\ \A a, b \in DOMAIN passed : a < b => passed[a] < passed[b]]_vars

C12_Witness ==
    /\ num_videos = 2
    /\ Len(BaselineCalls) = 1
    /\ BaselineCalls[1].names = <<2>>
    /\ Path("pp_csv", 1) \in fs

\* ------------------------------------------------------------------ C13
\* C13: over runs that may fail at any point and are retried without any
\* clean-up, whenever the directory of the expanded post-processing exists
\* when a run reaches the gate of that stage, the expanded smoothing for it
\* has completed in an earlier run.
C13_ExistingDirImpliesCompleted ==
    (pc = "expanded_pp" /\ ExpandedResultsDir(cfg) \in fs)
        => Path("aeks_eks_out", 0) \in fs

\* =========================================================================
\* Concurrent runs: NumProcs pipeline processes with the same configuration
\* reach the expanded post-processing (lines 271-303) on one output tree.
\* =========================================================================
Procs == 1..NumProcs

\* what the single-process variables hold in the two small specifications
IdleMain ==
    /\ video_len = 1
    /\ unsampled_len = 0
    /\ i = 1
    /\ v = 1
    /\ hand_labels = <<>>
    /\ seed_labels = <<>>
    /\ frame_idxs = <<>>
    /\ selected_frame_idxs = <<>>
    /\ csv = [k \in SeedValues |-> <<>>]
    /\ trace = <<>>
    /\ warned = {}
    /\ failed_seed = NoSeed
    /\ err = ""
    /\ run = 1
    /\ prev_done = FALSE
    /\ eks_calls = <<>>
    /\ train_args = {}

RaceInit ==
    /\ cfg \in [n_hand_labels : {HandLabels},
                n_pseudo_labels : {0},
                ensemble_seeds : {<<0>>},
                pseudo_labeler : {"eks", "ensemble_mean"},
                selection_strategy : {"hand"},
                ood_snippets : {FALSE}]
    /\ num_videos \in 0..MaxVideos
    /\ IdleMain
    /\ pc = "concurrent"
    /\ model_dirs_list = <<>>
    /\ dirs_in = <<>>
    /\ fs \in {{}, {ExpandedResultsDir(cfg), Path("aeks_eks_out", 0)}}
    /\ proc_pc = [p \in Procs |-> "seed_train"]

RaceFrame ==
    UNCHANGED <<config, locals, csv, warned, failed_seed, err, run, prev_done,
                train_args, dirs_in, pc>>

\* lines 253-266: the last training of the seed loop returns
ProcTrained(p) ==
    /\ proc_pc[p] = "seed_train"
    /\ proc_pc' = [proc_pc EXCEPT ![p] = "expanded_pp"]
    /\ UNCHANGED <<fs, trace, eks_calls>>
    /\ RaceFrame

\* line 284: if os.path.exists(results_dir)
ProcGate(p) ==
    /\ proc_pc[p] = "expanded_pp"
    /\ proc_pc' = [proc_pc EXCEPT ![p] =
           IF ExpandedResultsDir(cfg) \in fs THEN "skipped" ELSE "makedirs"]
    /\ UNCHANGED <<fs, trace, eks_calls>>
    /\ RaceFrame

\* line 288: os.makedirs(results_dir, exist_ok=True)
ProcMakedirs(p) ==
    /\ proc_pc[p] = "makedirs"
    /\ fs' = fs \cup {ExpandedResultsDir(cfg)}
    /\ proc_pc' = [proc_pc EXCEPT ![p] = "pipeline_eks"]
    /\ UNCHANGED <<trace, eks_calls>>
    /\ RaceFrame

\* lines 293-303: collect the csv names and run the smoothing
ProcSmooth(p) ==
    /\ proc_pc[p] = "pipeline_eks"
    /\ trace' = Append(trace, Ev("EXPANDED_POSTPROCESS", "pipeline_eks", p))
    /\ eks_calls' = Append(eks_calls,
           EksCall(ExpandedCsvNames(video_names), Path("aeks_dir", 0),
                   ExpandedMethod(cfg), ExpandedResultsDir(cfg)))
    /\ fs' = fs \cup {Path("aeks_eks_out", 0)}
    /\ proc_pc' = [proc_pc EXCEPT ![p] = "finished"]
    /\ RaceFrame

RaceNext ==
    \E p \in Procs :
        \/ ProcTrained(p)
        \/ ProcGate(p)
        \/ ProcMakedirs(p)
        \/ ProcSmooth(p)

RaceSpec == RaceInit /\ [][RaceNext]_vars

\* ------------------------------------------------------------------ C14
\* C14: a stage claims its directory by an atomic create-if-absent step, so
\* of the pipeline processes that run concurrently with one configuration
\* at most one performs the expanded smoothing for the output directory.
C14_AtMostOneSmoothing ==
    Cardinality({ j \in DOMAIN trace : trace[j][2] = "pipeline_eks" }) <= 1

\* =========================================================================
\* The 'eks' filter of lines 331-334 as a function of the directory list
\* that find_model_dirs may return: distinct directories of results_aeks_*,
\* eks_rng=<s0>-<sN> of earlier seed lists and rng<k>, in any order.
\* =========================================================================
DirNames == {<<kind, k>> : kind \in {"eks_rng", "rng"}, k \in SeedValues}

DirLists ==
    UNION { { d \in [1..n -> DirNames] : \A a, b \in 1..n : a # b => d[a] # d[b] }
            : n \in 0..MaxDirs }


FilterInit ==
    /\ cfg \in [n_hand_labels : {HandLabels},
                n_pseudo_labels : {0},
                ensemble_seeds : {<<0>>},
                pseudo_labeler : {"eks"},
                selection_strategy : {"hand"},
                ood_snippets : {TRUE}]
    /\ num_videos = 0
    /\ IdleMain
    /\ pc = "ood_filter"
    /\ fs = {}
    /\ proc_pc = <<>>
    /\ dirs_in \in DirLists
    /\ model_dirs_list = dirs_in

\* lines 331-334 on the list bound at line 325
FilterModelDirs ==
    /\ pc = "ood_filter"
    /\ model_dirs_list' = RemoveWhileIterating(model_dirs_list, 1)
    /\ pc' = "ood_filtered"
    /\ UNCHANGED <<config, others, i, v, hand_labels, seed_labels, frame_idxs,
                   selected_frame_idxs, fs, csv, trace, warned, failed_seed, err,
                   run, prev_done, eks_calls, train_args>>

FilterNext == FilterModelDirs

FilterSpec == FilterInit /\ [][FilterNext]_vars

\* ------------------------------------------------------------------ C15
\* C15: for every input list, including lists in which two directories
\* with 'eks' in their name are adjacent, the filtered list holds no
\* directory with 'eks' in its name and is exactly the other directories of
\* the input in their original order.
C15_FilterRemovesAllEks ==
    pc = "ood_filtered" =>
        /\ \A j \in DOMAIN model_dirs_list : ~HasEks(model_dirs_list[j])
        /\ model_dirs_list = SelectSeq(dirs_in, LAMBDA d : ~HasEks(d))

\* ------------------------------------------------------------------ C16
\* position in the trace of the first event of seed k in the given stage
FirstPos(stage, op, k) ==
    LET hits == { j \in DOMAIN trace : trace[j] = Ev(stage, op, k) }
    IN IF hits = {} THEN 0 ELSE CHOOSE j \in hits : \A m \in hits : j <= m

\* C16: every expanded training call is made for a seed k with the merged
\* csv path of k and the results directory rng<k>, after that csv was
\* written in the same iteration, and with the frame count
\* n_hand_labels + n_pseudo_labels whatever the row count of the merged table.
C16_TrainCallArguments ==
    /\ \A r \in train_args :
        /\ r.k \in SeedSet
        /\ ExpandedTrained(r.k)
        /\ r.new_labels_csv = Path("combined_csv", r.k)
        /\ r.results_dir = Path("aeks_rng", r.k)
        /\ r.n_train_frames = cfg.n_hand_labels + cfg.n_pseudo_labels
        /\ r.new_labels_csv \in fs
    /\ \A k \in SeedSet :
        ExpandedTrained(k) =>
            LET written == FirstPos("SELECT_AND_MERGE", "to_csv", k)
                trained == FirstPos("EXPANDED_TRAIN", "train_and_infer", k)
            IN /\ Cardinality({ r \in train_args : r.k = k }) = 1
               /\ 0 < written
               /\ written < trained
               /\ \A j \in written..trained : trace[j][3] = k

C16_Witness ==
    \E r \in train_args :
        /\ ExpandedTrained(r.k)
        /\ Len(csv[r.k]) # cfg.n_hand_labels + cfg.n_pseudo_labels
        /\ r.n_train_frames = cfg.n_hand_labels + cfg.n_pseudo_labels
        /\ Len(seeds) > 1

\* ------------------------------------------------------------------ C17
ExpandedCalls == SelectSeq(eks_calls, LAMBDA c : c.results_dir = ExpandedResultsDir(cfg))

\* C17: the expanded smoothing is always invoked with method 'eks' and the
\* directory eks_rng=<first seed>-<last seed>, whatever pseudo_labeler is
\* configured, while the baseline smoothing is invoked with the configured
\* method: under 'ensemble_mean' the baseline call carries 'ensemble_mean'
\* and the expanded call 'eks'.
C17_ExpandedSmoothingUsesEks ==
    /\ \A j \in DOMAIN eks_calls :
        /\ eks_calls[j].results_dir \in {Path("pp_dir", 0), ExpandedResultsDir(cfg)}
        /\ eks_calls[j].results_dir = Path("pp_dir", 0) =>
              /\ eks_calls[j].method = cfg.pseudo_labeler
              /\ eks_calls[j].input_dir = Path("networks_dir", 0)
        /\ eks_calls[j].results_dir = ExpandedResultsDir(cfg) =>
              /\ eks_calls[j].method = "eks"
              /\ eks_calls[j].input_dir = Path("aeks_dir", 0)
              /\ eks_calls[j].results_dir =
                     Path("aeks_eks_dir", seeds[1] * NumSeedValues + seeds[Len(seeds)])
    /\ Called("EXPANDED_POSTPROCESS", "pipeline_eks", NoSeed) => Len(ExpandedCalls) = 1
    /\ Len(ExpandedCalls) <= 1

C17_Witness ==
    /\ cfg.pseudo_labeler = "ensemble_mean"
    /\ Len(BaselineCalls) = 1
    /\ Len(ExpandedCalls) = 1
    /\ BaselineCalls[1].method = "ensemble_mean"
    /\ ExpandedCalls[1].method = "eks"
    /\ seeds[1] # seeds[Len(seeds)]
    /\ ExpandedCalls[1].results_dir = Path("aeks_eks_dir", EksRng(seeds[1], seeds[Len(seeds)]))

====
